---- MODULE Spec2Model ----
(***************************************************************************)
(* Model of cartography/intel/gcp/__init__.py: the GCP ingestion pipeline  *)
(* start_gcp_ingestion and its helpers.  One run of start_gcp_ingestion is *)
(* a single sequential thread; pc is its position.  Every collaborator     *)
(* call (crm.*, compute.sync, run_analysis_job, the credential provider,   *)
(* the API client builder) is a synchronous call that either returns or    *)
(* raises; the call and its outcome are one step, recorded in `calls`.     *)
(***************************************************************************)
EXTENDS Integers, Sequences, FiniteSets

\* ---------------------------------------------------------------- bounds
MaxTag == 2
MaxProjects == 2

Tags == 1..MaxTag
ProjectIds == {"proj-a", "proj-b"}

\* A project record is a dict; the enumerator's records carry projectId, and a
\* record may lack the key (project['projectId'] then raises KeyError).
ProjectRecords ==
    {[projectId |-> p] : p \in ProjectIds} \cup {[name |-> "no-project-id"]}

RECURSIVE SeqsUpTo(_, _)
SeqsUpTo(S, n) ==
    IF n = 0 THEN {<<>>}
    ELSE LET shorter == SeqsUpTo(S, n - 1)
         IN  shorter \cup {Append(s, x) : s \in {t \in shorter : Len(t) = n - 1}, x \in S}

ProjectLists == SeqsUpTo(ProjectRecords, MaxProjects)

\* ---------------------------------------------------------------- state
VARIABLES
    pc,                     \* position of the run in start_gcp_ingestion
    config,                 \* the cartography.config object (update_tag)
    common_job_parameters,  \* the dict built at lines 103-105
    credentials,            \* local of start_gcp_ingestion, line 110
    resources,              \* local of start_gcp_ingestion, line 123
    projects,               \* local of start_gcp_ingestion, line 129
    i,                      \* position of the for loop of line 88 (1-based)
    calls,                  \* collaborator calls made so far, in order
    logs,                   \* records emitted on `logger`, in order
    error,                  \* exception that left start_gcp_ingestion, or "None"
    graph,                  \* the graph store behind the Neo4j session
    run,                    \* which call of start_gcp_ingestion this is (1 or 2)
    first_calls,            \* the calls of the first run, once a second one started
    first_graph             \* the graph store as the first run left it

\* what a run of start_gcp_ingestion leaves alone: the host's bookkeeping
host == <<run, first_calls, first_graph>>

vars == <<pc, config, common_job_parameters, credentials, resources, projects,
          i, calls, logs, error, graph, run, first_calls, first_graph>>

\* ---------------------------------------------------------------- values
Unbound == "unbound"        \* a local of start_gcp_ingestion not yet assigned
NoHandle == <<>>
NoResources == [crm_v1 |-> NoHandle, crm_v2 |-> NoHandle, compute |-> NoHandle]
EmptyDict == <<>>

JobName == "gcp_compute_asset_inet_exposure.json"

\* googleapiclient.discovery.build(api, version, credentials=..., cache_discovery=False):
\* the client handle it returns, and the record of the call.
build(api, version, creds) == <<api, version, creds>>

build_call(api, version, creds) ==
    [fn |-> "googleapiclient.discovery.build", api |-> api, version |-> version,
     credentials |-> creds]

_get_crm_resource_v1(creds) == build("cloudresourcemanager", "v1", creds)
_get_crm_resource_v2(creds) == build("cloudresourcemanager", "v2", creds)
_get_compute_resource(creds) == build("compute", "v1", creds)

\* Resources namedtuple 'crm_v1 crm_v2 compute'
_initialize_resources(creds) ==
    [crm_v1  |-> _get_crm_resource_v1(creds),
     crm_v2  |-> _get_crm_resource_v2(creds),
     compute |-> _get_compute_resource(creds)]

\* The build calls _initialize_resources makes, in the order of lines 52-54.
BuildCalls(creds) ==
    << build_call("cloudresourcemanager", "v1", creds),
       build_call("cloudresourcemanager", "v2", creds),
       build_call("compute", "v1", creds) >>

Log(level, msg) == [level |-> level, msg |-> msg]

\* Variant of CredentialFailureLogs: a single record, logged with logger.warning.
CredentialFailureLogsWarning ==
    << Log("WARNING", "Unable to initialize Google Compute Platform creds.") >>

\* The records of the except clause, lines 112-121.
CredentialFailureLogs ==
    << Log("DEBUG", "Error occurred calling GoogleCredentials.get_application_default()."),
       Log("ERROR", "Unable to initialize Google Compute Platform creds.") >>

\* ------------------------------------------------- collaborator call records
\* A call record holds the callee and the arguments it received (the Neo4j
\* session, the same object in every call, is left out).  The step that makes
\* the call adds `result`, how the call ended: "returned" or "raised".
WriteFns == {"crm.sync_gcp_organizations", "crm.sync_gcp_folders",
             "crm.sync_gcp_projects", "compute.sync"}

crm_sync_gcp_organizations(handle, tag, params) ==
    [fn |-> "crm.sync_gcp_organizations", handle |-> handle, tag |-> tag, params |-> params]

crm_sync_gcp_folders(handle, tag, params) ==
    [fn |-> "crm.sync_gcp_folders", handle |-> handle, tag |-> tag, params |-> params]

crm_get_gcp_projects(handle) ==
    [fn |-> "crm.get_gcp_projects", handle |-> handle]

crm_sync_gcp_projects(projs, tag, params) ==
    [fn |-> "crm.sync_gcp_projects", projects |-> projs, tag |-> tag, params |-> params]

compute_sync(handle, project_id, tag, params) ==
    [fn |-> "compute.sync", handle |-> handle, project_id |-> project_id,
     tag |-> tag, params |-> params]

run_analysis_job(job, params) ==
    [fn |-> "run_analysis_job", job |-> job, params |-> params]

get_application_default == [fn |-> "GoogleCredentials.get_application_default"]

\* Record r extended with how the call ended: `result` is "returned" or
\* "raised", `exception` the exception that left the call ("None" if none).
Ended(r, res, exc) ==
    [f \in DOMAIN r \cup {"result", "exception"} |->
        IF f = "result" THEN res ELSE IF f = "exception" THEN exc ELSE r[f]]

Returned(r) == Ended(r, "returned", "None")
Raised(r, exc) == Ended(r, "raised", exc)

\* A hierarchy sync record also holds `listing`: what the provider's listing
\* did inside the call.
WithListing(r, listing) ==
    [f \in DOMAIN r \cup {"listing"} |-> IF f = "listing" THEN listing ELSE r[f]]

\* The record of crm.get_gcp_projects also holds `value`: the list it returned.
WithValue(r, value) ==
    [f \in DOMAIN r \cup {"value"} |-> IF f = "value" THEN value ELSE r[f]]

\* ------------------------------------------------------------ graph store
\* What the provider holds at the top of the hierarchy.
Organizations == {"organizations/1"}
Folders == {"folders/1"}

EmptyGraph == [organizations |-> {}, folders |-> {}, projects |-> {}, resources |-> {}]

\* The nodes an ended call c has written: a sync merges one node per entity,
\* keyed by the entity and stamped with the tag it received.  A hierarchy sync
\* whose listing was denied has nothing to write; a call that raised has
\* written nothing.
Written(c) ==
    IF c.result # "returned" THEN EmptyGraph
    ELSE CASE c.fn = "crm.sync_gcp_organizations" ->
                [EmptyGraph EXCEPT !.organizations =
                    IF c.listing = "ok" THEN {<<o, c.tag>> : o \in Organizations} ELSE {}]
           [] c.fn = "crm.sync_gcp_folders" ->
                [EmptyGraph EXCEPT !.folders =
                    IF c.listing = "ok" THEN {<<f, c.tag>> : f \in Folders} ELSE {}]
           [] c.fn = "crm.sync_gcp_projects" ->
                [EmptyGraph EXCEPT !.projects =
                    {<<c.projects[k], c.tag>> : k \in DOMAIN c.projects}]
           [] c.fn = "compute.sync" ->
                [EmptyGraph EXCEPT !.resources = {<<c.project_id, c.tag>>}]
           [] OTHER -> EmptyGraph

\* Merge on (entity, tag): a node already there is not added again.
Merge(g, c) == [kind \in DOMAIN g |-> g[kind] \cup Written(c)[kind]]

\* ------------------------------------------------------ the code's call sites
\* line 103-105
BuildCommonJobParameters == [UPDATE_TAG |-> config.update_tag]

\* Variant of _sync_single_project: the tag is taken anew instead of passed on.
_sync_single_project_fresh_tag(res, project_id, gcp_update_tag, params) ==
    compute_sync(res.compute, project_id, gcp_update_tag + 1, params)

\* line 69
_sync_single_project(res, project_id, gcp_update_tag, params) ==
    compute_sync(res.compute, project_id, gcp_update_tag, params)

\* Variant of SyncOrganizationsCall: the tag is made anew in each run instead of
\* taken from config.
SyncOrganizationsCallOwnTag ==
    crm_sync_gcp_organizations(resources.crm_v1, config.update_tag + run - 1,
                               common_job_parameters)

\* line 126
SyncOrganizationsCall ==
    crm_sync_gcp_organizations(resources.crm_v1, config.update_tag, common_job_parameters)

\* Variant of SyncFoldersCall: the folders sync is handed the v1 handle.
SyncFoldersCallV1Handle ==
    crm_sync_gcp_folders(resources.crm_v1, config.update_tag, common_job_parameters)

\* line 127
SyncFoldersCall ==
    crm_sync_gcp_folders(resources.crm_v2, config.update_tag, common_job_parameters)

\* line 129
GetProjectsCall == crm_get_gcp_projects(resources.crm_v1)

\* Variant of SyncProjectsCall: the batch sync is handed only the records that
\* have a projectId.
SyncProjectsCallFiltered(projs, gcp_update_tag, params) ==
    crm_sync_gcp_projects(SelectSeq(projs, LAMBDA p : "projectId" \in DOMAIN p),
                          gcp_update_tag, params)

\* line 86, reached from line 131 with gcp_update_tag = config.update_tag
SyncProjectsCall(projs, gcp_update_tag, params) ==
    crm_sync_gcp_projects(projs, gcp_update_tag, params)

\* Variant of RunAnalysisJobCall: the job is handed the mapping with a key added.
RunAnalysisJobCallExtraKey ==
    run_analysis_job(JobName, [UPDATE_TAG |-> config.update_tag, JOB |-> JobName])

\* lines 133-137
RunAnalysisJobCall == run_analysis_job(JobName, common_job_parameters)

\* Variant of ProjectAt: the list is walked from its end (reversed(projects)).
ProjectAtReversed(projs, k) == projs[Len(projs) + 1 - k]

\* for project in projects: the element of iteration k
ProjectAt(projs, k) == projs[k]

\* Variant of LoopDone: the loop stops one element early (projects[:-1]).
LoopDoneOffByOne(projs, k) == k >= Len(projs)

\* the for loop of line 88 is over once every element has been visited
LoopDone(projs, k) == k > Len(projs)

\* Each call ends before the next statement runs; a raised exception that no
\* except clause names leaves start_gcp_ingestion.
Outcome(r, res) == IF res = "returned" THEN Returned(r) ELSE Raised(r, "Error")

\* Variant of Successor: the folders sync is written before the organizations sync.
SuccessorFoldersFirst(step) ==
    CASE step = "Start"                -> "AcquiringCredentials"
      [] step = "AcquiringCredentials" -> "BuildingResources"
      [] step = "BuildingResources"    -> "SyncingFolders"
      [] step = "SyncingFolders"       -> "SyncingOrganizations"
      [] step = "SyncingOrganizations" -> "EnumeratingProjects"
      [] step = "EnumeratingProjects"  -> "SyncingProjectsBatch"
      [] step = "SyncingProjectsBatch" -> "SyncingProjects"
      [] step = "SyncingProjects"      -> "RunningAnalysis"
      [] step = "RunningAnalysis"      -> "Done"

\* Variant of Successor: run_analysis_job is written before _sync_multiple_projects.
SuccessorAnalysisFirst(step) ==
    CASE step = "Start"                -> "AcquiringCredentials"
      [] step = "AcquiringCredentials" -> "BuildingResources"
      [] step = "BuildingResources"    -> "SyncingOrganizations"
      [] step = "SyncingOrganizations" -> "SyncingFolders"
      [] step = "SyncingFolders"       -> "EnumeratingProjects"
      [] step = "EnumeratingProjects"  -> "RunningAnalysis"
      [] step = "RunningAnalysis"      -> "SyncingProjectsBatch"
      [] step = "SyncingProjectsBatch" -> "SyncingProjects"
      [] step = "SyncingProjects"      -> "Done"

\* Variant of Successor: the handles are built only after the first sync.
SuccessorBuildsLate(step) ==
    CASE step = "Start"                -> "AcquiringCredentials"
      [] step = "AcquiringCredentials" -> "SyncingOrganizations"
      [] step = "SyncingOrganizations" -> "BuildingResources"
      [] step = "BuildingResources"    -> "SyncingFolders"
      [] step = "SyncingFolders"       -> "EnumeratingProjects"
      [] step = "EnumeratingProjects"  -> "SyncingProjectsBatch"
      [] step = "SyncingProjectsBatch" -> "SyncingProjects"
      [] step = "SyncingProjects"      -> "RunningAnalysis"
      [] step = "RunningAnalysis"      -> "Done"

\* Variant of Successor: a stray return after the hierarchy syncs.
SuccessorReturnsEarly(step) ==
    CASE step = "Start"                -> "AcquiringCredentials"
      [] step = "AcquiringCredentials" -> "BuildingResources"
      [] step = "BuildingResources"    -> "SyncingOrganizations"
      [] step = "SyncingOrganizations" -> "SyncingFolders"
      [] step = "SyncingFolders"       -> "Done"
      [] step = "EnumeratingProjects"  -> "SyncingProjectsBatch"
      [] step = "SyncingProjectsBatch" -> "SyncingProjects"
      [] step = "SyncingProjects"      -> "RunningAnalysis"
      [] step = "RunningAnalysis"      -> "Done"

\* The order of the statements of start_gcp_ingestion on the normal path.
Successor(step) ==
    CASE step = "Start"                -> "AcquiringCredentials"
      [] step = "AcquiringCredentials" -> "BuildingResources"
      [] step = "BuildingResources"    -> "SyncingOrganizations"
      [] step = "SyncingOrganizations" -> "SyncingFolders"
      [] step = "SyncingFolders"       -> "EnumeratingProjects"
      [] step = "EnumeratingProjects"  -> "SyncingProjectsBatch"
      [] step = "SyncingProjectsBatch" -> "SyncingProjects"
      [] step = "SyncingProjects"      -> "RunningAnalysis"
      [] step = "RunningAnalysis"      -> "Done"

\* Variant of CredentialFailurePc: the except clause lacks its return.
CredentialFailureFallsThrough == "BuildingResources"

\* Variant of CredentialFailureError: the except clause re-raises.
CredentialFailureReraised(e) == e

\* except ApplicationDefaultCredentialsError: ... return  (lines 111, 122): the
\* position the run ends in, and the exception that leaves the function (none).
CredentialFailurePc == "Aborted"
CredentialFailureError(e) == "None"

\* Variant of HierarchySyncResult: the permission failure is not absorbed.
HierarchySyncPropagates(listing) ==
    IF listing = "ok" THEN "returned" ELSE "raised"

\* How a hierarchy sync of crm ends given what the provider's listing did:
\* a permission failure is absorbed inside the sync (empty result), any other
\* failure of the call leaves it as an exception.
HierarchySyncResult(listing) ==
    IF listing \in {"ok", "PermissionDenied"} THEN "returned" ELSE "raised"

Listings == {"ok", "PermissionDenied", "Error"}
Results == {"returned", "raised"}

CredentialOutcomes == {"ok", "ApplicationDefaultCredentialsError", "Error"}

\* Variant of AfterLoopStep: after the last element the loop waits for one more
\* instead of ending.
AfterLoopStepWaitsForMore(projs, k) ==
    IF k > Len(projs) + 1 THEN Successor("SyncingProjects") ELSE "SyncingProjects"

\* Variant of AfterLoopStep: the analysis job is skipped when nothing was listed.
AfterLoopStepSkipsAnalysisWhenEmpty(projs, k) ==
    IF LoopDone(projs, k)
    THEN IF projs = <<>> THEN "Done" ELSE Successor("SyncingProjects")
    ELSE "SyncingProjects"

\* Where the run goes after iteration k-1 of the loop of line 88 (k = 1: after
\* line 86): into iteration k, or out of _sync_multiple_projects to line 133.
AfterLoopStep(projs, k) ==
    IF LoopDone(projs, k) THEN Successor("SyncingProjects") ELSE "SyncingProjects"

\* Variant of ProjectSyncRaised: the failure is caught and logged, and the loop
\* goes on with the next project.
ProjectSyncRaisedSkipped(projs, k, g) ==
    [pc |-> AfterLoopStep(projs, k + 1), error |-> "None", i |-> k + 1, graph |-> g]

\* Variant of ProjectSyncRaised: the failure undoes the writes of the run.
ProjectSyncRaisedRollsBack(projs, k, g) ==
    [pc |-> "Failed", error |-> "Error", i |-> k, graph |-> EmptyGraph]

\* compute.sync raised in iteration k (line 91, line 69): nothing catches it in
\* _sync_single_project, _sync_multiple_projects or start_gcp_ingestion, and
\* nothing undoes what was written: the exception leaves the run where it is.
ProjectSyncRaised(projs, k, g) ==
    [pc |-> "Failed", error |-> "Error", i |-> k, graph |-> g]

\* Variant of AnalysisRaised: the failure of the job is caught and dropped.
AnalysisRaisedSwallowed(g) ==
    [pc |-> Successor("RunningAnalysis"), error |-> "None", graph |-> g]

\* run_analysis_job raised (lines 133-137): nothing catches it.
AnalysisRaised(g) == [pc |-> "Failed", error |-> "Error", graph |-> g]

\* ---------------------------------------------------------------- Init
Init ==
    /\ pc = "Start"
    /\ config \in [update_tag : Tags]
    /\ common_job_parameters = EmptyDict
    /\ credentials = Unbound
    /\ resources = NoResources
    /\ projects = <<>>
    /\ i = 0
    /\ calls = <<>>
    /\ logs = <<>>
    /\ error = "None"
    /\ graph = EmptyGraph
    /\ run = 1
    /\ first_calls = <<>>
    /\ first_graph = EmptyGraph

\* ---------------------------------------------------------------- steps
\* lines 103-105
Start ==
    /\ pc = "Start"
    /\ common_job_parameters' = BuildCommonJobParameters
    /\ pc' = Successor("Start")
    /\ UNCHANGED <<config, credentials, resources, projects, i, calls, logs, error, graph, host>>

\* lines 106-122: GoogleCredentials.get_application_default() returns the
\* credentials, raises ApplicationDefaultCredentialsError (caught: two log
\* records, return) or raises something else (not caught).
AcquireCredentials ==
    /\ pc = "AcquiringCredentials"
    /\ \E outcome \in CredentialOutcomes :
        \/ /\ outcome = "ok"
           /\ calls' = Append(calls, Returned(get_application_default))
           /\ credentials' = "application-default"
           /\ pc' = Successor("AcquiringCredentials")
           /\ UNCHANGED <<logs, error>>
        \/ /\ outcome = "ApplicationDefaultCredentialsError"
           /\ calls' = Append(calls, Raised(get_application_default, outcome))
           /\ logs' = logs \o CredentialFailureLogs
           /\ pc' = CredentialFailurePc
           /\ error' = CredentialFailureError(outcome)
           /\ UNCHANGED credentials
        \/ /\ outcome = "Error"
           /\ calls' = Append(calls, Raised(get_application_default, outcome))
           /\ pc' = "Failed"
           /\ error' = outcome
           /\ UNCHANGED <<credentials, logs>>
    /\ UNCHANGED <<config, common_job_parameters, resources, projects, i, graph, host>>

\* line 123, lines 45-55: three build calls in order; the first that raises
\* ends the run (nothing catches it), otherwise the namedtuple is bound.
InitializeResources ==
    /\ pc = "BuildingResources"
    /\ \/ /\ calls' = calls \o [k \in 1..3 |-> Returned(BuildCalls(credentials)[k])]
          /\ resources' = _initialize_resources(credentials)
          /\ pc' = Successor("BuildingResources")
          /\ UNCHANGED error
       \/ \E failing \in 1..3 :
          /\ calls' = calls \o
                [k \in 1..failing |->
                    Outcome(BuildCalls(credentials)[k],
                            IF k = failing THEN "raised" ELSE "returned")]
          /\ pc' = "Failed"
          /\ error' = "Error"
          /\ UNCHANGED resources
    /\ UNCHANGED <<config, common_job_parameters, credentials, projects, i, logs, graph, host>>

\* A hierarchy sync call (lines 126, 127): no try around it, so the run goes on
\* exactly when the call returns.
HierarchySync(step, call) ==
    /\ pc = step
    /\ \E listing \in Listings :
        LET res == HierarchySyncResult(listing)
            c == WithListing(Ended(call, res,
                                   IF res = "returned" THEN "None" ELSE listing), listing)
        IN
        /\ calls' = Append(calls, c)
        /\ graph' = Merge(graph, c)
        /\ IF res = "returned"
           THEN pc' = Successor(step) /\ UNCHANGED error
           ELSE pc' = "Failed" /\ error' = listing
    /\ UNCHANGED <<config, common_job_parameters, credentials, resources, projects, i, logs, host>>

SyncOrganizations == HierarchySync("SyncingOrganizations", SyncOrganizationsCall)

SyncFolders == HierarchySync("SyncingFolders", SyncFoldersCall)

\* line 129
GetProjects ==
    /\ pc = "EnumeratingProjects"
    /\ \/ \E listed \in ProjectLists :
          /\ calls' = Append(calls, WithValue(Returned(GetProjectsCall), listed))
          /\ projects' = listed
          /\ pc' = Successor("EnumeratingProjects")
          /\ UNCHANGED error
       \/ /\ calls' = Append(calls, Raised(GetProjectsCall, "Error"))
          /\ pc' = "Failed"
          /\ error' = "Error"
          /\ UNCHANGED projects
    /\ UNCHANGED <<config, common_job_parameters, credentials, resources, i, logs, graph, host>>

\* line 131 into lines 85-86: the debug record, then the batch project sync
SyncProjectsBatch ==
    /\ pc = "SyncingProjectsBatch"
    /\ logs' = Append(logs, Log("DEBUG", "Syncing %d GCP projects."))
    /\ \E res \in Results :
        LET c == Outcome(SyncProjectsCall(projects, config.update_tag, common_job_parameters),
                         res)
        IN
        /\ calls' = Append(calls, c)
        /\ graph' = Merge(graph, c)
        /\ IF res = "returned"
           THEN /\ i' = 1
                /\ pc' = AfterLoopStep(projects, 1)
                /\ UNCHANGED error
           ELSE /\ pc' = "Failed"
                /\ error' = "Error"
                /\ UNCHANGED i
    /\ UNCHANGED <<config, common_job_parameters, credentials, resources, projects, host>>

\* lines 88-91: one iteration of the loop
SyncSingleProject ==
    /\ pc = "SyncingProjects"
    /\ i \in DOMAIN projects
    /\ LET project == ProjectAt(projects, i) IN
       IF "projectId" \notin DOMAIN project
       THEN \* project['projectId'] raises KeyError
            /\ pc' = "Failed"
            /\ error' = "KeyError"
            /\ UNCHANGED <<i, calls, logs, graph>>
       ELSE /\ logs' = Append(logs, Log("INFO", "Syncing GCP project %s."))
            /\ \E res \in Results :
                LET c == Outcome(_sync_single_project(resources, project.projectId,
                                                      config.update_tag,
                                                      common_job_parameters),
                                 res)
                    raised == ProjectSyncRaised(projects, i, graph)
                IN
                /\ calls' = Append(calls, c)
                /\ IF res = "returned"
                   THEN /\ i' = i + 1
                        /\ pc' = AfterLoopStep(projects, i + 1)
                        /\ graph' = Merge(graph, c)
                        /\ UNCHANGED error
                   ELSE /\ pc' = raised.pc
                        /\ error' = raised.error
                        /\ i' = raised.i
                        /\ graph' = raised.graph
    /\ UNCHANGED <<config, common_job_parameters, credentials, resources, projects, host>>

\* lines 133-137
RunAnalysisJob ==
    /\ pc = "RunningAnalysis"
    /\ \E res \in Results :
        /\ calls' = Append(calls, Outcome(RunAnalysisJobCall, res))
        /\ IF res = "returned"
           THEN pc' = Successor("RunningAnalysis") /\ UNCHANGED <<error, graph>>
           ELSE LET raised == AnalysisRaised(graph) IN
                /\ pc' = raised.pc
                /\ error' = raised.error
                /\ graph' = raised.graph
    /\ UNCHANGED <<config, common_job_parameters, credentials, resources, projects, i, logs, host>>

Next ==
    \/ Start
    \/ AcquireCredentials
    \/ InitializeResources
    \/ SyncOrganizations
    \/ SyncFolders
    \/ GetProjects
    \/ SyncProjectsBatch
    \/ SyncSingleProject
    \/ RunAnalysisJob

Spec == Init /\ [][Next]_vars

\* The host calls start_gcp_ingestion a second time, with the same config (the
\* same tag) and the same session (the same graph store), after a first run
\* that completed.  The locals of the first run are gone; what it called and
\* what it left in the store are kept for comparison.
Restart ==
    /\ pc = "Done"
    /\ run = 1
    /\ run' = run + 1
    /\ first_calls' = calls
    /\ first_graph' = graph
    /\ pc' = "Start"
    /\ common_job_parameters' = EmptyDict
    /\ credentials' = Unbound
    /\ resources' = NoResources
    /\ projects' = <<>>
    /\ i' = 0
    /\ calls' = <<>>
    /\ logs' = <<>>
    /\ error' = "None"
    /\ UNCHANGED <<config, graph>>

NextTwice == Next \/ Restart

SpecTwice == Init /\ [][NextTwice]_vars

\* A run is one thread making synchronous calls; when every call returns or
\* raises, the statement the run is at is eventually executed.
FairSpec == Init /\ [][Next]_vars /\ WF_vars(Next)

\* ------------------------------------------------------ reading the run
Idx(fn) == {k \in DOMAIN calls : calls[k].fn = fn}

CallsOf(fn) == SelectSeq(calls, LAMBDA c : c.fn = fn)

HierarchyFns == {"crm.sync_gcp_organizations", "crm.sync_gcp_folders"}

ProjectWriteFns == {"crm.sync_gcp_projects", "compute.sync"}

\* credential acquisition has failed with ApplicationDefaultCredentialsError
CredentialsFailed ==
    \E k \in Idx("GoogleCredentials.get_application_default") :
        calls[k].exception = "ApplicationDefaultCredentialsError"

\* the listing inside hierarchy sync call k hit a permission error
Denied(k) == calls[k].fn \in HierarchyFns /\ calls[k].listing = "PermissionDenied"

\* the k-th per-project sync is the sync of the k-th enumerated project, with
\* the run's tag and parameters
PerProjectCallMatches(k) ==
    LET c == CallsOf("compute.sync")[k] IN
    /\ k <= Len(projects)
    /\ "projectId" \in DOMAIN projects[k]
    /\ c.project_id = projects[k].projectId
    /\ c.tag = config.update_tag
    /\ c.params = common_job_parameters

\* ---------------------------------------------------------------- claims

\* C1: tag consistency.  Every write call of a run (organizations, folders,
\* batch projects, compute.sync of each project) receives config.update_tag,
\* the one tag of the run, and that is also the value under UPDATE_TAG in the
\* common_job_parameters the call receives and the run holds.
C1_TagConsistency ==
    /\ \A k \in DOMAIN calls :
         calls[k].fn \in WriteFns =>
            /\ calls[k].tag = config.update_tag
            /\ calls[k].params = [UPDATE_TAG |-> config.update_tag]
    /\ Cardinality({calls[k].tag : k \in {j \in DOMAIN calls : calls[j].fn \in WriteFns}}) <= 1
    /\ pc # "Start" => common_job_parameters = [UPDATE_TAG |-> config.update_tag]

C1_Witness ==
    /\ pc = "Done"
    /\ \A fn \in WriteFns : Idx(fn) # {}
    /\ Cardinality(Idx("compute.sync")) = 2

\* C2: when credential acquisition fails with ApplicationDefaultCredentialsError
\* nothing downstream happens: no client handle is built, and no sync, no
\* enumeration and no analysis job is called.
C2_NoSideEffectsOnCredentialFailure ==
    CredentialsFailed =>
        /\ \A k \in DOMAIN calls : calls[k].fn = "GoogleCredentials.get_application_default"
        /\ Len(calls) = 1
        /\ resources = NoResources
        /\ credentials = Unbound
        /\ projects = <<>>

C2_Witness == CredentialsFailed /\ pc = "Aborted"

\* C3: a permission error met by the listing inside the organizations sync or
\* the folders sync does not end the run: the sync returns, the next statement
\* runs (folders after organizations, enumeration after folders), and once the
\* enumeration has returned the batch project sync follows.
C3_PermissionErrorAbsorbed ==
    /\ error # "PermissionDenied"
    /\ \A k \in DOMAIN calls :
         Denied(k) =>
            /\ calls[k].result = "returned"
            /\ LET next == IF calls[k].fn = "crm.sync_gcp_organizations"
                           THEN [fn |-> "crm.sync_gcp_folders", pc |-> "SyncingFolders"]
                           ELSE [fn |-> "crm.get_gcp_projects", pc |-> "EnumeratingProjects"]
               IN  IF k < Len(calls) THEN calls[k + 1].fn = next.fn ELSE pc = next.pc
    /\ \A k \in Idx("crm.get_gcp_projects") :
         (calls[k].result = "returned" /\ \E j \in 1..k : Denied(j)) =>
            IF k < Len(calls) THEN calls[k + 1].fn = "crm.sync_gcp_projects"
            ELSE pc = "SyncingProjectsBatch"

C3_Witness ==
    /\ pc = "Done"
    /\ \E k \in Idx("crm.sync_gcp_organizations") : Denied(k)
    /\ \E k \in Idx("crm.sync_gcp_folders") : Denied(k)
    /\ Idx("compute.sync") # {}

\* C4: when a run completes (no call failed), the per-project sync has been
\* called exactly Len(projects) times, the k-th call with the projectId of the
\* k-th enumerated project, each with the run's tag and common parameters; in
\* every state the calls made so far are such a prefix.
C4_OncePerProject ==
    /\ Len(CallsOf("compute.sync")) <= Len(projects)
    /\ \A k \in DOMAIN CallsOf("compute.sync") : PerProjectCallMatches(k)
    /\ pc = "Done" => Len(CallsOf("compute.sync")) = Len(projects)

C4_Witness ==
    /\ pc = "Done"
    /\ Len(projects) = 2
    /\ Len(CallsOf("compute.sync")) = 2
    /\ projects[1] = projects[2]

\* C5: the batch project sync is called at most once, with the enumerated list,
\* and has returned before any per-project sync; the per-project syncs follow
\* the order of the enumerated list; and every call has returned before the
\* next one is made.
C5_OrderedSequential ==
    /\ Cardinality(Idx("crm.sync_gcp_projects")) <= 1
    /\ \A b \in Idx("crm.sync_gcp_projects") : calls[b].projects = projects
    /\ \A k \in Idx("compute.sync") :
         \E b \in Idx("crm.sync_gcp_projects") : b < k /\ calls[b].result = "returned"
    /\ \A k \in DOMAIN CallsOf("compute.sync") :
         /\ k <= Len(projects)
         /\ "projectId" \in DOMAIN projects[k]
         /\ CallsOf("compute.sync")[k].project_id = projects[k].projectId
    /\ \A k \in DOMAIN calls : k < Len(calls) => calls[k].result = "returned"
    /\ pc = "Done" => Cardinality(Idx("crm.sync_gcp_projects")) = 1

C5_Witness ==
    /\ pc = "Done"
    /\ projects = <<[projectId |-> "proj-a"], [projectId |-> "proj-b"]>>
    /\ Len(CallsOf("compute.sync")) = 2

\* C6: hierarchy before projects.  The folders sync is only called after the
\* organizations sync has returned, and the enumeration and every project
\* write only after both have returned.
C6_HierarchyBeforeProjects ==
    /\ \A f \in Idx("crm.sync_gcp_folders") :
         \E o \in Idx("crm.sync_gcp_organizations") : o < f /\ calls[o].result = "returned"
    /\ \A k \in DOMAIN calls :
         calls[k].fn \in ProjectWriteFns \cup {"crm.get_gcp_projects"} =>
            \E o \in Idx("crm.sync_gcp_organizations"), f \in Idx("crm.sync_gcp_folders") :
                o < f /\ f < k /\ calls[f].result = "returned"
    /\ pc \in {"EnumeratingProjects", "SyncingProjectsBatch", "SyncingProjects",
               "RunningAnalysis", "Done"} =>
         Idx("crm.sync_gcp_organizations") # {} /\ Idx("crm.sync_gcp_folders") # {}

C6_Witness ==
    /\ Idx("crm.sync_gcp_organizations") # {}
    /\ Idx("crm.sync_gcp_folders") # {}
    /\ Idx("crm.get_gcp_projects") # {}
    /\ Idx("crm.sync_gcp_projects") # {}
    /\ Idx("compute.sync") # {}

\* C7: the analysis job is called at most once in a run, with the fixed job
\* name and common_job_parameters, only after the batch sync and the sync of
\* every enumerated project have returned, and nothing is called after it; a
\* run that completes has called it exactly once.
C7_OneAnalysisJobAtTheEnd ==
    /\ Cardinality(Idx("run_analysis_job")) <= 1
    /\ \A a \in Idx("run_analysis_job") :
         /\ a = Len(calls)
         /\ calls[a].job = "gcp_compute_asset_inet_exposure.json"
         /\ calls[a].params = common_job_parameters
         /\ calls[a].params = [UPDATE_TAG |-> config.update_tag]
         /\ Idx("crm.sync_gcp_projects") # {}
         /\ Len(CallsOf("compute.sync")) = Len(projects)
         /\ \A k \in 1..(a - 1) : calls[k].result = "returned"
    /\ pc = "Done" => Cardinality(Idx("run_analysis_job")) = 1
    /\ pc = "RunningAnalysis" => Len(CallsOf("compute.sync")) = Len(projects)

C7_Witness ==
    /\ pc = "Done"
    /\ Len(projects) = 2
    /\ Cardinality(Idx("run_analysis_job")) = 1

\* The enumerator has returned the empty list.
EnumeratedEmpty ==
    /\ \E k \in Idx("crm.get_gcp_projects") : calls[k].result = "returned"
    /\ projects = <<>>

\* C8: with an empty enumerated list the batch project sync is still called,
\* with the empty list, no per-project sync is called, and a run that
\* completes has called the analysis job exactly once.
C8_EmptyProjectList ==
    EnumeratedEmpty =>
        /\ Idx("compute.sync") = {}
        /\ pc # "SyncingProjects"
        /\ pc # "SyncingProjectsBatch" =>
             /\ Cardinality(Idx("crm.sync_gcp_projects")) = 1
             /\ \A b \in Idx("crm.sync_gcp_projects") : calls[b].projects = <<>>
        /\ pc = "Done" => Cardinality(Idx("run_analysis_job")) = 1
        /\ pc \in {"SyncingProjectsBatch", "RunningAnalysis", "Done", "Failed"}

C8_Witness ==
    /\ EnumeratedEmpty
    /\ pc = "Done"
    /\ Idx("crm.sync_gcp_projects") # {}
    /\ Idx("run_analysis_job") # {}

\* C9: soft abort.  When credential acquisition fails with
\* ApplicationDefaultCredentialsError the run ends by returning: it is in its
\* terminal Aborted state and no exception has left start_gcp_ingestion.
C9_SoftAbort ==
    CredentialsFailed => pc = "Aborted" /\ error = "None"

C9_Witness == CredentialsFailed /\ pc = "Aborted" /\ Len(logs) > 0

\* the levels of the log records emitted so far, in order
LogLevels == [k \in DOMAIN logs |-> logs[k].level]

\* C10 as stated: the failure path emits exactly one log record and its level
\* is warning.
C10_SingleWarning ==
    CredentialsFailed => Len(logs) = 1 /\ logs[1].level = "WARNING"

\* C10 as amended: the failure path emits exactly two log records, a
\* debug-level record and then one error-level diagnostic; no record is at
\* warning level.
C10_DebugThenError ==
    CredentialsFailed =>
        /\ LogLevels = <<"DEBUG", "ERROR">>
        /\ \A k \in DOMAIN logs : logs[k].level # "WARNING"

C10_Witness == CredentialsFailed /\ Len(logs) = 2 /\ logs[2].level = "ERROR"

\* ------------------------------------------------- claims on two runs, order
\* What the provider showed a run: what each hierarchy listing did and the list
\* the enumeration returned.
Observed(cs) ==
    LET shown == SelectSeq(cs, LAMBDA c :
                    c.fn \in HierarchyFns \cup {"crm.get_gcp_projects"})
    IN  [k \in DOMAIN shown |->
            IF shown[k].fn \in HierarchyFns
            THEN <<shown[k].fn, shown[k].listing>>
            ELSE <<shown[k].fn, shown[k].result,
                   IF shown[k].result = "returned" THEN shown[k].value ELSE <<>> >>]

\* a second complete run has ended, against the provider data of the first
SecondRunDone ==
    /\ run = 2
    /\ pc = "Done"
    /\ Observed(calls) = Observed(first_calls)

\* C11: idempotence.  After a second complete run with the same tag against
\* the same provider data, with syncs that merge on (entity, tag), the graph
\* store is what the first run left: the second run added no node.
C11_Idempotent == SecondRunDone => graph = first_graph

C11_Witness ==
    /\ SecondRunDone
    /\ graph.organizations # {}
    /\ graph.folders # {}
    /\ Cardinality(graph.projects) = 2
    /\ Cardinality(graph.resources) = 2

\* The orchestrator state a position of the run belongs to.
StateOf(at) ==
    CASE at \in {"Start", "AcquiringCredentials"}            -> "AcquiringCredentials"
      [] at \in {"SyncingOrganizations", "SyncingFolders"}   -> "SyncingHierarchy"
      [] at \in {"SyncingProjectsBatch", "SyncingProjects"}  -> "SyncingProjects"
      [] OTHER -> at

StateOrder ==
    <<"AcquiringCredentials", "BuildingResources", "SyncingHierarchy",
      "EnumeratingProjects", "SyncingProjects", "RunningAnalysis", "Done">>

Rank(state) == CHOOSE k \in DOMAIN StateOrder : StateOrder[k] = state

\* the callees of a run in which every step ran, in order
FullPath ==
    <<"GoogleCredentials.get_application_default",
      "googleapiclient.discovery.build", "googleapiclient.discovery.build",
      "googleapiclient.discovery.build",
      "crm.sync_gcp_organizations", "crm.sync_gcp_folders",
      "crm.get_gcp_projects", "crm.sync_gcp_projects">>
    \o [k \in DOMAIN projects |-> "compute.sync"]
    \o <<"run_analysis_job">>

\* a step of the run stays in its state, moves to the next state of the order,
\* aborts from AcquiringCredentials, or ends with an unhandled failure
C12_Step ==
    LET a == StateOf(pc)
        b == StateOf(pc')
    IN  \/ b = a
        \/ b = "Failed" /\ a \notin {"Done", "Aborted", "Failed"}
        \/ b = "Aborted" /\ a = "AcquiringCredentials"
        \/ /\ a \in {StateOrder[k] : k \in DOMAIN StateOrder}
           /\ b \in {StateOrder[k] : k \in DOMAIN StateOrder}
           /\ Rank(b) = Rank(a) + 1

\* a run that has returned normally either aborted on the credential failure
\* with nothing else called, or made every call of the pipeline
C12_NormalReturn ==
    /\ pc = "Aborted" => CredentialsFailed /\ Len(calls) = 1 /\ error = "None"
    /\ pc = "Done" =>
        /\ error = "None"
        /\ [k \in DOMAIN calls |-> calls[k].fn] = FullPath
        /\ \A k \in DOMAIN calls : calls[k].result = "returned"
    /\ error = "None" <=> pc # "Failed"

\* C12: the states are visited only in the order AcquiringCredentials,
\* BuildingResources, SyncingHierarchy, EnumeratingProjects, SyncingProjects,
\* RunningAnalysis, Done; Aborted is entered only from AcquiringCredentials; and
\* a normal return is either the abort with no collaborator called or the end
\* of a run in which every step ran.
C12_StateOrder == [][C12_Step]_vars /\ []C12_NormalReturn

C12_Witness ==
    /\ pc = "Done"
    /\ Len(projects) = 2
    /\ Len(calls) = Len(FullPath)

\* C13: termination.  When every call returns or raises, a run eventually
\* reaches Done, Aborted or the unhandled failure.
C13_Terminates == <>(pc \in {"Done", "Aborted", "Failed"})

C13_Witness ==
    /\ pc = "Done"
    /\ Len(projects) = 2
    /\ i = Len(projects) + 1

\* ------------------------------------------- claims on failures and frames

\* C14: a per-project sync failure is not swallowed.  When the compute.sync of
\* a project raises, the run ends with that exception leaving
\* start_gcp_ingestion: it is the last call of the run, so no later project is
\* synced and the analysis job is not called.
C14_ProjectFailureSurfaces ==
    \A k \in Idx("compute.sync") :
        calls[k].result = "raised" =>
            /\ pc = "Failed"
            /\ error # "None"
            /\ k = Len(calls)
            /\ Idx("run_analysis_job") = {}
            /\ Len(CallsOf("compute.sync")) = i

C14_Witness ==
    /\ pc = "Failed"
    /\ Len(projects) = 2
    /\ i = 1
    /\ \E k \in Idx("compute.sync") : calls[k].result = "raised"

\* every call that takes the common parameters received the mapping the run
\* holds, which has the one key UPDATE_TAG, set to the run's tag
C15_SameMapping ==
    /\ \A k \in DOMAIN calls :
         "params" \in DOMAIN calls[k] =>
            /\ calls[k].params = common_job_parameters
            /\ DOMAIN calls[k].params = {"UPDATE_TAG"}
            /\ calls[k].params.UPDATE_TAG = config.update_tag
    /\ \A j, k \in DOMAIN calls :
         ("params" \in DOMAIN calls[j] /\ "params" \in DOMAIN calls[k]) =>
            calls[j].params = calls[k].params

\* C15: common_job_parameters is threaded unmodified.  Once built (line 103)
\* the mapping is never changed by the run, and every sync call and the
\* analysis job receive that same mapping.
C15_ParametersThreaded ==
    /\ []C15_SameMapping
    /\ [][pc # "Start" => common_job_parameters' = common_job_parameters]_vars

C15_Witness ==
    /\ pc = "Done"
    /\ Idx("compute.sync") # {}
    /\ \E a \in Idx("run_analysis_job"), o \in Idx("crm.sync_gcp_organizations") :
         calls[a].params = calls[o].params

\* the handle tuple built from the application default credentials
BuiltResources ==
    [crm_v1  |-> <<"cloudresourcemanager", "v1", "application-default">>,
     crm_v2  |-> <<"cloudresourcemanager", "v2", "application-default">>,
     compute |-> <<"compute", "v1", "application-default">>]

\* the build calls directly follow the successful credential call, one per API
\* surface, and every listing, sync and analysis call comes after all three
C16_BuiltOnceBeforeUse ==
    /\ \A b \in Idx("googleapiclient.discovery.build") :
         /\ b \in {2, 3, 4}
         /\ calls[1].fn = "GoogleCredentials.get_application_default"
         /\ calls[1].result = "returned"
         /\ calls[b].credentials = "application-default"
         /\ <<calls[b].api, calls[b].version>> =
                <<"cloudresourcemanager", "v1">> <=> b = 2
         /\ <<calls[b].api, calls[b].version>> =
                <<"cloudresourcemanager", "v2">> <=> b = 3
         /\ <<calls[b].api, calls[b].version>> = <<"compute", "v1">> <=> b = 4
    /\ \A k \in DOMAIN calls :
         calls[k].fn \in WriteFns \cup {"crm.get_gcp_projects", "run_analysis_job"} =>
            /\ k > 4
            /\ \A b \in {2, 3, 4} :
                 /\ calls[b].fn = "googleapiclient.discovery.build"
                 /\ calls[b].result = "returned"
            /\ resources = BuiltResources
    /\ resources \in {NoResources, BuiltResources}
    /\ resources = BuiltResources =>
         /\ Cardinality(Idx("googleapiclient.discovery.build")) = 3
         /\ credentials = "application-default"

\* C16: the handles are built exactly once per run, only after credential
\* acquisition has succeeded and before any sync or listing call, the factory
\* makes no listing or sync call, and the tuple never changes once built.
C16_ResourcesOnce ==
    /\ []C16_BuiltOnceBeforeUse
    /\ [][resources # NoResources => resources' = resources]_vars

C16_Witness ==
    /\ pc = "Done"
    /\ resources = BuiltResources
    /\ Idx("compute.sync") # {}

\* C17: the enumerator is called at most once per run (exactly once in a run
\* that got past it), and the list it returned is the list of the run: the
\* batch sync receives it and the per-project syncs follow it, element by
\* element, with nothing added, removed or reordered.
C17_OneEnumeration ==
    /\ Cardinality(Idx("crm.get_gcp_projects")) <= 1
    /\ pc \in {"SyncingProjectsBatch", "SyncingProjects", "RunningAnalysis", "Done"} =>
         \E e \in Idx("crm.get_gcp_projects") : calls[e].result = "returned"
    /\ (\A e \in Idx("crm.get_gcp_projects") : calls[e].result = "raised") =>
         /\ projects = <<>>
         /\ \A k \in DOMAIN calls : calls[k].fn \notin ProjectWriteFns
    /\ \A e \in Idx("crm.get_gcp_projects") :
         calls[e].result = "returned" =>
            /\ projects = calls[e].value
            /\ \A b \in Idx("crm.sync_gcp_projects") :
                 b > e /\ calls[b].projects = calls[e].value
            /\ \A k \in DOMAIN CallsOf("compute.sync") :
                 /\ k <= Len(calls[e].value)
                 /\ "projectId" \in DOMAIN calls[e].value[k]
                 /\ CallsOf("compute.sync")[k].project_id = calls[e].value[k].projectId

C17_Witness ==
    /\ pc = "Done"
    /\ \E e \in Idx("crm.get_gcp_projects") :
         calls[e].value = <<[projectId |-> "proj-b"], [projectId |-> "proj-a"]>>
    /\ Len(CallsOf("compute.sync")) = 2

\* C18: a failure of the analysis job leaves start_gcp_ingestion as an
\* exception, and when it happens every sync call of the run (organizations,
\* folders, batch projects, each project) has already returned.
C18_AnalysisFailureSurfaces ==
    \A a \in Idx("run_analysis_job") :
        calls[a].result = "raised" =>
            /\ pc = "Failed"
            /\ error # "None"
            /\ a = Len(calls)
            /\ [k \in DOMAIN calls |-> calls[k].fn] = FullPath
            /\ \A k \in 1..(a - 1) : calls[k].result = "returned"

C18_Witness ==
    /\ pc = "Failed"
    /\ Len(projects) = 2
    /\ \E a \in Idx("run_analysis_job") : calls[a].result = "raised"

\* the run ended with the unhandled failure of iteration i of the loop: the
\* compute.sync of project i raised, or record i has no projectId
FailedAtProject == pc = "Failed" /\ i \in DOMAIN projects

\* every write a call of the run made is in the store, stamped with the run's
\* tag; after a failure at project i the store holds the node of each of the N
\* enumerated projects and the resources of projects 1..i-1 only
C19_WritesKept ==
    /\ \A k \in DOMAIN calls : \A kind \in DOMAIN graph :
         Written(calls[k])[kind] \subseteq graph[kind]
    /\ \A kind \in DOMAIN graph : \A node \in graph[kind] : node[2] = config.update_tag
    /\ FailedAtProject =>
         /\ graph.projects = {<<projects[k], config.update_tag>> : k \in DOMAIN projects}
         /\ graph.resources =
                {<<projects[k].projectId, config.update_tag>> : k \in 1..(i - 1)}

\* C19: no rollback.  Nothing written to the graph store is ever removed by
\* the run, so when it ends with an unhandled failure the writes of the steps
\* before it are still there.
C19_NoRollback ==
    /\ []C19_WritesKept
    /\ [][\A kind \in DOMAIN graph : graph[kind] \subseteq graph'[kind]]_vars

C19_Witness ==
    /\ FailedAtProject
    /\ i = 2
    /\ Cardinality(graph.projects) = 2
    /\ Cardinality(graph.resources) = 1
    /\ graph.organizations # {}

\* C20: handle routing.  The organizations sync and the enumeration receive
\* the cloudresourcemanager v1 handle, the folders sync the v2 handle, every
\* compute.sync the compute handle, and the batch project sync receives the
\* project list and no handle.
C20_HandleRouting ==
    \A k \in DOMAIN calls :
        /\ calls[k].fn \in {"crm.sync_gcp_organizations", "crm.get_gcp_projects"} =>
             calls[k].handle = <<"cloudresourcemanager", "v1", "application-default">>
        /\ calls[k].fn = "crm.sync_gcp_folders" =>
             calls[k].handle = <<"cloudresourcemanager", "v2", "application-default">>
        /\ calls[k].fn = "compute.sync" =>
             calls[k].handle = <<"compute", "v1", "application-default">>
        /\ calls[k].fn = "crm.sync_gcp_projects" =>
             /\ "handle" \notin DOMAIN calls[k]
             /\ calls[k].projects = projects

C20_Witness ==
    /\ pc = "Done"
    /\ Len(CallsOf("compute.sync")) = 2
    /\ \A fn \in WriteFns \cup {"crm.get_gcp_projects"} : Idx(fn) # {}

====
